---- MODULE Spec2Model ----
(***************************************************************************)
(* A model of src/moodanalyser.py: the console collection loop             *)
(* (collect_user_entries), the MoodAnalyzer object (its data frame df, its *)
(* analytics dictionary and its insights list) and run_analysis.           *)
(*                                                                         *)
(* Numbers.  Mood scores are integers.  Every float the program derives    *)
(* from them is kept as an exact fraction [num, den]; the standard         *)
(* deviation is kept as its square (the sample variance).  Comparisons     *)
(* against "baseline - k * std" are decided by cross-multiplying and       *)
(* squaring, so no rounding enters.  NaN is the fraction 0/0.              *)
(* Sentiment scores (VADER's compound, in [-1,1]) are scaled by 100.       *)
(* A tag is a natural number: its rank in the string order of the tags, so *)
(* that "<" on tags is the order pandas' groupby sorts the keys by.        *)
(* A date is a day number; strftime('%B %d') keeps month and day only.     *)
(***************************************************************************)
EXTENDS Integers, Sequences, FiniteSets, TLC

\* ---------------------------------------------------------------- bounds
\* Longest history collected in the short specifications.
MaxLen == 7
\* Longest history collected in SpecLong.
MaxLongLen == 15
\* How often run_analysis is called on one analyzer.
MaxRuns == 2
\* In SpecSteady, how often the entry typed differs from the one before it.
MaxChanges == 2

\* ----------------------------------------------------- program constants
MinRecords == 7
RollingWindow == 7
TailWindow == 14
AnomalyCount == 3
CareMinLen == 14
HighMood == 7
NegSentiment == -50
MinScore == 1
MaxScore == 10
\* 1.75 as a fraction
AnomalyFactorNum == 7
AnomalyFactorDen == 4
PatternMargin == 1
\* datetime.now(), as a day number
Today == 100

\* A value that is not a list (a missing 'tags' cell), and a missing journal.
NotAList == << -1 >>
NoJournal == "<NA>"

\* ------------------------------------------------------------ arithmetic
RECURSIVE SumRange(_, _, _)
SumRange(s, a, b) == IF a > b THEN 0 ELSE s[a] + SumRange(s, a + 1, b)

Sum(s) == SumRange(s, 1, Len(s))

RECURSIVE SumSquares(_, _, _)
SumSquares(s, a, b) == IF a > b THEN 0 ELSE s[a] * s[a] + SumSquares(s, a + 1, b)

Frac(n, d) == [num |-> n, den |-> d]
NaN == Frac(0, 0)

\* Series.mean()
Mean(s) == Frac(Sum(s), Len(s))

\* Series.std(), ddof = 1, as its square: (n*Q - S^2) / (n*(n-1))
StdSquared(s) ==
    LET n == Len(s)
        S == Sum(s)
    IN  IF n < 2 THEN NaN
        ELSE Frac(n * SumSquares(s, 1, n) - S * S, n * (n - 1))

\* x < mean - k * std, for fractions x, mean, k and std given by its square.
\* A comparison with NaN is false.
LessThanMeanMinusStdLoose(x, mean, stdsq, k) ==
    LET A == mean.num * x.den - x.num * mean.den
        D == mean.den * x.den
    IN  /\ x.den # 0 /\ mean.den # 0 /\ stdsq.den # 0
        /\ A >= 0
        /\ A * A * k.den * k.den * stdsq.den >= k.num * k.num * stdsq.num * D * D
LessThanMeanMinusStd(x, mean, stdsq, k) ==
    LET A == mean.num * x.den - x.num * mean.den
        D == mean.den * x.den
    IN  /\ x.den # 0 /\ mean.den # 0 /\ stdsq.den # 0
        /\ A > 0
        /\ A * A * k.den * k.den * stdsq.den > k.num * k.num * stdsq.num * D * D

\* x > y + m and x < y - m for fractions x, y and an integer m
GreaterThanPlus(x, y, m) == x.num * y.den > (y.num + m * y.den) * x.den
LessThanMinus(x, y, m) == x.num * y.den < (y.num - m * y.den) * x.den

\* f"{x:.1f}": the nearest tenth, a tie going to the even digit; in tenths.
Fmt1(x) ==
    LET q == (10 * x.num) \div x.den
        r == 10 * x.num - q * x.den
    IN  IF 2 * r > x.den THEN q + 1
        ELSE IF 2 * r < x.den THEN q
        ELSE IF q % 2 = 0 THEN q ELSE q + 1

\* date.strftime('%B %d'): month and day, the year dropped
Strftime(d) == [month |-> ((d \div 30) % 12) + 1, day |-> (d % 30) + 1]

\* SentimentIntensityAnalyzer().polarity_scores(text)['compound'], times 100
polarity_compound(text) ==
    CASE text = "awful"  -> -70
      [] text = "gloomy" -> -50
      [] text = "fine"   -> 40
      [] OTHER           -> 0

\* ------------------------------------------------------------- sequences
Reverse(s) == [i \in 1..Len(s) |-> s[Len(s) + 1 - i]]

Column(rows, f) == [i \in 1..Len(rows) |-> rows[i][f]]

\* DataFrame.tail(k) of a column
TailOf(s, k) == IF Len(s) <= k THEN s ELSE SubSeq(s, Len(s) - k + 1, Len(s))

CountTrue(s) == Cardinality({i \in 1..Len(s) : s[i]})

VARIABLES user_entries, current_date, pc, user_data, df, analytics, insights,
          returned

vars == << user_entries, current_date, pc, user_data, df, analytics, insights,
           returned >>

\* ------------------------------------------------ MoodAnalyzer, the data
\* One insight: its type and its text (the template and what it interpolates).
Insight(type, template, a, b) == [type |-> type, text |-> << template, a, b >>]

KeepLogging == Insight("info", "Keep logging your mood!", 0, 0)

\* df.sort_index(): ascending by date, equal dates kept in their order
InsertByDate(r, s) ==
    LET p == Cardinality({i \in 1..Len(s) : s[i].date <= r.date})
    IN  SubSeq(s, 1, p) \o << r >> \o SubSeq(s, p + 1, Len(s))

RECURSIVE SortRows(_)
SortRows(s) ==
    IF s = << >> THEN << >>
    ELSE InsertByDate(s[Len(s)], SortRows(SubSeq(s, 1, Len(s) - 1)))

\* sort_index leaves an index that is already ascending as it is
IsMonotonic(s) == \A i \in 1..(Len(s) - 1) : s[i].date <= s[i + 1].date
SortByDate(s) == IF IsMonotonic(s) THEN s ELSE SortRows(s)

\* the two normalising lines: a tags cell that is no list becomes [], a
\* missing journal becomes ''
NormaliseRow(r) ==
    [date |-> r.date, mood_score |-> r.mood_score,
     tags |-> IF r.tags = NotAList THEN << >> ELSE r.tags,
     journal |-> IF r.journal = NoJournal THEN "" ELSE r.journal]

FrameOf(rows) ==
    [date |-> Column(rows, "date"), mood_score |-> Column(rows, "mood_score"),
     tags |-> Column(rows, "tags"), journal |-> Column(rows, "journal")]

preprocess_data_unsorted(data) ==
    FrameOf([i \in 1..Len(data) |-> NormaliseRow(data[i])])
preprocess_data(data) ==
    LET sorted == SortByDate(data)
    IN  FrameOf([i \in 1..Len(sorted) |-> NormaliseRow(sorted[i])])

\* len(self.df) < 7: return
EnoughRecordsLoose(frame) == Len(frame.date) >= MinRecords - 1
EnoughRecords(frame) == Len(frame.date) >= MinRecords

\* df['mood_score'].rolling(window=7).mean(): the window's sum is carried
\* along, the entering score added and the leaving one removed
RECURSIVE RollingSums(_, _, _)
RollingSums(scores, i, before) ==
    IF i > Len(scores) THEN << >>
    ELSE LET now == before + scores[i]
                    - (IF i > RollingWindow THEN scores[i - RollingWindow] ELSE 0)
         IN  << now >> \o RollingSums(scores, i + 1, now)

RollingMeanHead(scores) ==
    [i \in 1..Len(scores) |->
        IF i < RollingWindow THEN NaN
        ELSE Frac(RollingSums(scores, 1, 0)[RollingWindow], RollingWindow)]
RollingMean(scores) ==
    LET sums == RollingSums(scores, 1, 0)
    IN  [i \in 1..Len(scores) |->
            IF i < RollingWindow THEN NaN ELSE Frac(sums[i], RollingWindow)]

analyze_trends_and_baseline(st) ==
    IF ~EnoughRecords(st.df) THEN st
    ELSE [st EXCEPT
            !.analytics = ("baseline_mood" :> Mean(st.df.mood_score)
                           @@ "mood_std_dev" :> StdSquared(st.df.mood_score))
                          @@ st.analytics,
            !.df = ("mood_7_day_avg" :> RollingMean(st.df.mood_score)) @@ st.df]

\* df['mood_score'] < anomaly_threshold, row by row
AnomalyFlagsLoose(scores, baseline, stdsq) ==
    [i \in 1..Len(scores) |->
        LessThanMeanMinusStdLoose(Frac(scores[i], 1), baseline, stdsq,
                                  Frac(AnomalyFactorNum, AnomalyFactorDen))]
AnomalyFlags(scores, baseline, stdsq) ==
    [i \in 1..Len(scores) |->
        LessThanMeanMinusStd(Frac(scores[i], 1), baseline, stdsq,
                             Frac(AnomalyFactorNum, AnomalyFactorDen))]

\* df.explode('tags'): one row per element of a row's list, in row order; a
\* row with an empty list gives one row whose tag is NaN
NaNTag == -1
ExplodeRow(tags, score) ==
    IF tags = << >> THEN << [tags |-> NaNTag, mood_score |-> score] >>
    ELSE [j \in 1..Len(tags) |-> [tags |-> tags[j], mood_score |-> score]]

RECURSIVE ExplodeFrom(_, _)
ExplodeFrom(frame, i) ==
    IF i > Len(frame.date) THEN << >>
    ELSE ExplodeRow(frame.tags[i], frame.mood_score[i]) \o ExplodeFrom(frame, i + 1)

\* .dropna(subset=['tags'])
DropNa(rows) == SelectSeq(rows, LAMBDA r : r.tags # NaNTag)

Exploded(frame) == DropNa(ExplodeFrom(frame, 1))

RECURSIVE SortedKeys(_)
SortedKeys(S) ==
    IF S = {} THEN << >>
    ELSE LET m == CHOOSE x \in S : \A y \in S : x <= y
         IN  << m >> \o SortedKeys(S \ {m})

RECURSIVE FirstSeenKeys(_, _)
FirstSeenKeys(rows, seen) ==
    IF rows = << >> THEN << >>
    ELSE IF Head(rows).tags \in seen THEN FirstSeenKeys(Tail(rows), seen)
    ELSE << Head(rows).tags >>
         \o FirstSeenKeys(Tail(rows), seen \cup {Head(rows).tags})

\* the keys of exploded_df.groupby('tags'), in the order it yields the groups
GroupKeysUnsorted(rows) == FirstSeenKeys(rows, {})
GroupKeys(rows) == SortedKeys({rows[i].tags : i \in 1..Len(rows)})

\* group['mood_score'].mean() of one key
GroupMean(rows, tag) ==
    Mean(Column(SelectSeq(rows, LAMBDA r : r.tags = tag), "mood_score"))

\* tag_moods, a dict: its items in insertion order
TagMoods(frame) ==
    LET rows == Exploded(frame)
        keys == GroupKeys(rows)
    IN  [k \in 1..Len(keys) |-> [tag |-> keys[k], mean |-> GroupMean(rows, keys[k])]]

\* analyzer.polarity_scores(text)['compound'] if isinstance(text, str) and text else 0
JournalSentiment(journals) ==
    [i \in 1..Len(journals) |->
        IF journals[i] # "" THEN polarity_compound(journals[i]) ELSE 0]

detect_patterns_and_anomalies(st) ==
    IF "baseline_mood" \notin DOMAIN st.analytics THEN st
    ELSE [st EXCEPT
            !.df = ("is_anomaly" :> AnomalyFlags(st.df.mood_score,
                                                 st.analytics.baseline_mood,
                                                 st.analytics.mood_std_dev)
                    @@ "journal_sentiment" :> JournalSentiment(st.df.journal))
                   @@ st.df,
            !.analytics = ("tag_correlations" :> TagMoods(st.df)) @@ st.analytics]

\* ------------------------------------------- MoodAnalyzer, the synthesis
BaselineInfo(frame, baseline) ==
    Insight("info", "Over the last N days, your average mood has been B/10.",
            Len(frame.date), Fmt1(baseline))

\* the loop over tag_correlations.items()
RECURSIVE PatternInsights(_, _)
PatternInsights(items, baseline) ==
    IF items = << >> THEN << >>
    ELSE LET it == Head(items)
             one == IF GreaterThanPlus(it.mean, baseline, PatternMargin)
                    THEN << Insight("positive_pattern", "Positive Pattern",
                                    it.tag, Fmt1(it.mean)) >>
                    ELSE IF LessThanMinus(it.mean, baseline, PatternMargin)
                    THEN << Insight("negative_pattern", "Challenging Pattern",
                                    it.tag, Fmt1(it.mean)) >>
                    ELSE << >>
         IN  one \o PatternInsights(Tail(items), baseline)

\* df['is_anomaly'].tail(14).sum() >= 3
ConcerningTrendAll(frame) == CountTrue(frame.is_anomaly) >= AnomalyCount
ConcerningTrend(frame) ==
    CountTrue(TailOf(frame.is_anomaly, TailWindow)) >= AnomalyCount

\* len(df) > 14 and df['mood_7_day_avg'].iloc[-1] < baseline - std
CareRecommendation(frame, an) ==
    /\ Len(frame.date) > CareMinLen
    /\ LessThanMeanMinusStd(frame.mood_7_day_avg[Len(frame.date)],
                            an.baseline_mood, an.mood_std_dev, Frac(1, 1))

\* df[(df['mood_score'] > 7) & (df['journal_sentiment'] < -0.5)], as row numbers
ConflictingEntry(frame) ==
    { i \in 1..Len(frame.date) :
        frame.mood_score[i] > HighMood /\ frame.journal_sentiment[i] < NegSentiment }

\* conflicting_entry.index[0].strftime('%B %d')
NlpInsight(frame) ==
    LET rows == ConflictingEntry(frame)
        first == CHOOSE i \in rows : \A j \in rows : i <= j
        date_str == Strftime(frame.date[first])
    IN  IF rows = {} THEN << >>
        ELSE << Insight("nlp_insight", "On DATE, you reported a high mood, but ...",
                        date_str.month, date_str.day) >>

TrendInsight(frame) ==
    IF ConcerningTrend(frame)
    THEN << Insight("concerning_trend", "Concerning Trend", 0, 0) >>
    ELSE << >>

CareInsight(frame, an) ==
    IF CareRecommendation(frame, an)
    THEN << Insight("care_recommendation", "Care Recommendation", 0, 0) >>
    ELSE << >>

\* what _synthesize_insights appends when the baseline exists, in its order
SynthesisedNlpFirst(frame, an) ==
    << BaselineInfo(frame, an.baseline_mood) >>
    \o NlpInsight(frame)
    \o PatternInsights(an.tag_correlations, an.baseline_mood)
    \o TrendInsight(frame)
    \o CareInsight(frame, an)
Synthesised(frame, an) ==
    << BaselineInfo(frame, an.baseline_mood) >>
    \o PatternInsights(an.tag_correlations, an.baseline_mood)
    \o TrendInsight(frame)
    \o CareInsight(frame, an)
    \o NlpInsight(frame)

synthesize_insights(st) ==
    IF "baseline_mood" \notin DOMAIN st.analytics
    THEN [st EXCEPT !.insights = Append(@, KeepLogging)]
    ELSE [st EXCEPT !.insights = @ \o Synthesised(st.df, st.analytics)]

\* ---------------------------------------------------------------- inputs
Token(spaces, word) == [spaces |-> spaces, word |-> word]
Typed(value) == [numeric |-> TRUE, value |-> value]
NotANumber == [numeric |-> FALSE, value |-> 0]
Entry(mood, tokens, journal) ==
    [mood_input |-> mood, tag_input |-> tokens, journal_input |-> journal]

\* what is typed at the console in the short specification
ShortInputs ==
    { Entry(Typed(5), << Token(0, 0) >>, ""),
      Entry(Typed(9), << Token(1, 2), Token(0, 2) >>, "awful"),
      Entry(Typed(1), << Token(0, 1), Token(0, 0), Token(1, 2) >>, "fine"),
      Entry(Typed(11), << Token(0, 1) >>, ""),
      Entry(NotANumber, << >>, "") }

\* records a caller hands to MoodAnalyzer without the console
CallerRecords ==
    { [mood_score |-> 11, tags |-> NotAList, journal |-> NoJournal] }

NlpInputs ==
    { Entry(Typed(9), << Token(0, 0) >>, "awful"),
      Entry(Typed(7), << Token(0, 0) >>, "awful"),
      Entry(Typed(8), << Token(0, 0) >>, "gloomy"),
      Entry(Typed(0), << >>, "awful") }

LongInputs ==
    { Entry(Typed(9), << >>, ""),
      Entry(Typed(2), << >>, ""),
      Entry(Typed(0), << >>, "") }

SteadyInputs ==
    { Entry(Typed(9), << Token(0, 2) >>, "awful"),
      Entry(Typed(2), << Token(0, 1) >>, ""),
      Entry(Typed(5), << Token(0, 0) >>, "fine"),
      Entry(NotANumber, << >>, "") }

\* the orders in which the collected records are handed to MoodAnalyzer
MainOrder == { "ascending" }
AnyOrder == { "ascending", "descending", "rotated" }

Supply(entries, order) ==
    CASE order = "ascending"  -> Reverse(entries)
      [] order = "descending" -> entries
      [] order = "rotated"    ->
            LET r == Reverse(entries)
                h == Len(r) \div 2
            IN  SubSeq(r, h + 1, Len(r)) \o SubSeq(r, 1, h)

\* --------------------------------------------------------------- actions
Init ==
    /\ user_entries = << >>
    /\ current_date = Today
    /\ pc = "collect"
    /\ user_data = << >>
    /\ df = << >>
    /\ analytics = << >>
    /\ insights = << >>
    /\ returned = << >>

\* [tag.strip() for tag in tag_input.split(',') if tag.strip()]
ParseTags(tokens) ==
    LET kept == SelectSeq(tokens, LAMBDA t : t.word # 0)
    IN  [i \in 1..Len(kept) |-> kept[i].word]

ValidScore(mood_input) ==
    /\ mood_input.numeric
    /\ MinScore <= mood_input.value /\ mood_input.value <= MaxScore

\* how often an entry differs (the date apart) from the entry before it
Changes(entries) ==
    Cardinality({ i \in 1..(Len(entries) - 1) :
        \/ entries[i].mood_score # entries[i + 1].mood_score
        \/ entries[i].tags # entries[i + 1].tags
        \/ entries[i].journal # entries[i + 1].journal })

\* one turn of the loop of collect_user_entries; maxLen and maxChanges bound
\* what is typed, not the loop
CollectEntry(Inputs, maxLen, maxChanges) ==
    /\ pc = "collect"
    /\ Len(user_entries) < maxLen
    /\ \E inp \in Inputs :
         IF ~ValidScore(inp.mood_input)
         THEN UNCHANGED << user_entries, current_date >>
         ELSE /\ user_entries' = Append(user_entries,
                    [date |-> current_date, mood_score |-> inp.mood_input.value,
                     tags |-> ParseTags(inp.tag_input), journal |-> inp.journal_input])
              /\ Changes(user_entries') <= maxChanges
              /\ current_date' = current_date - 1
    /\ UNCHANGED << pc, user_data, df, analytics, insights, returned >>

\* a caller that builds the list itself adds a record of its own
CallerRecord(Records, maxLen) ==
    /\ pc = "collect"
    /\ Len(user_entries) < maxLen
    /\ \E r \in Records :
         user_entries' = Append(user_entries,
                [date |-> current_date, mood_score |-> r.mood_score,
                 tags |-> r.tags, journal |-> r.journal])
    /\ current_date' = current_date - 1
    /\ UNCHANGED << pc, user_data, df, analytics, insights, returned >>

\* MoodAnalyzer(user_data): __init__; an empty list raises (KeyError: 'date')
Construct(Orders) ==
    /\ pc = "collect"
    /\ \E order \in Orders :
         /\ user_data' = Supply(user_entries, order)
         /\ IF user_entries = << >>
            THEN pc' = "raised" /\ UNCHANGED df
            ELSE pc' = "analyzer" /\ df' = preprocess_data(user_data')
    /\ insights' = << >>
    /\ analytics' = << >>
    /\ UNCHANGED << user_entries, current_date, returned >>

\* analyzer.run_analysis()
run_analysis(st) ==
    synthesize_insights(detect_patterns_and_anomalies(analyze_trends_and_baseline(st)))

RunAnalysis(maxRuns) ==
    /\ pc = "analyzer"
    /\ Len(returned) < maxRuns
    /\ LET st == run_analysis([df |-> df, analytics |-> analytics,
                               insights |-> insights])
       IN  /\ df' = st.df
           /\ analytics' = st.analytics
           /\ insights' = st.insights
           /\ returned' = Append(returned, st.insights)
    /\ UNCHANGED << user_entries, current_date, pc, user_data >>

Next ==
    \/ CollectEntry(ShortInputs, MaxLen, MaxLen)
    \/ CallerRecord(CallerRecords, MaxLen)
    \/ Construct(MainOrder)
    \/ RunAnalysis(1)

Spec == Init /\ [][Next]_vars

NextNlp ==
    \/ CollectEntry(NlpInputs, MaxLen, MaxLen)
    \/ Construct(AnyOrder)
    \/ RunAnalysis(MaxRuns)

SpecNlp == Init /\ [][NextNlp]_vars

NextLong ==
    \/ CollectEntry(LongInputs, MaxLongLen, MaxLongLen)
    \/ Construct(MainOrder)
    \/ RunAnalysis(1)

SpecLong == Init /\ [][NextLong]_vars

NextSteady ==
    \/ CollectEntry(SteadyInputs, MaxLongLen, MaxChanges)
    \/ Construct(MainOrder)
    \/ RunAnalysis(1)

SpecSteady == Init /\ [][NextSteady]_vars

\* ---------------------------------------------------------------- claims
\* What the claims are stated with.  None of it is used by the model above.
Analysed == pc = "analyzer" /\ returned # << >>
Count == Len(user_data)
Runs == 1..Len(returned)

\* the insights the k-th call of run_analysis appended to the list
Segment(k) ==
    SubSeq(returned[k], (IF k = 1 THEN 0 ELSE Len(returned[k - 1])) + 1,
           Len(returned[k]))
Types(seq) == [i \in 1..Len(seq) |-> seq[i].type]
Positions(seq, type) == {i \in 1..Len(seq) : seq[i].type = type}
IsPattern(ins) == ins.type \in {"positive_pattern", "negative_pattern"}

RECURSIVE SetSum(_, _)
SetSum(f, S) ==
    IF S = {} THEN 0
    ELSE LET i == CHOOSE x \in S : TRUE IN f[i] + SetSum(f, S \ {i})
RECURSIVE SquareSum(_, _)
SquareSum(f, i) == IF i = 0 THEN 0 ELSE f[i] * f[i] + SquareSum(f, i - 1)
ScoreSum == SetSum(df.mood_score, 1..Count)
\* n (n-1) times the sample variance, for the sum S of the scores
ScaledVariance(S) == Count * SquareSum(df.mood_score, Count) - S * S

OutOfRange(r) == r.mood_score < 1 \/ r.mood_score > 10

\* C1: with fewer than 7 records every call of run_analysis adds exactly the
\* one 'keep logging' info insight and nothing else, and the first call
\* returns exactly that one insight, whatever the scores, tags and journals.
C1_FewRecordsOneInfo ==
    (Analysed /\ Count < 7) =>
        /\ returned[1] = << KeepLogging >>
        /\ \A k \in Runs : Segment(k) = << KeepLogging >>

C1_Witness ==
    /\ Analysed /\ Count = 6
    /\ \E i \in 1..Count : user_data[i].tags # << >> /\ user_data[i].journal = "awful"
    /\ \E i \in 1..Count : OutOfRange(user_data[i])

\* C2: a record with a mood_score outside [1,10] makes building the series
\* fail, so that no insight sequence is ever produced for that input.
C2_OutOfRangeFails ==
    (\E i \in 1..Count : OutOfRange(user_data[i])) =>
        (pc # "analyzer" /\ returned = << >>)

\* C3: what one call of run_analysis appends is in rule order: exactly one
\* info, first; then the pattern insights; then at most one concerning_trend;
\* then at most one care_recommendation; then at most one nlp_insight.
Rank(type) ==
    CASE type = "info" -> 1
      [] type \in {"positive_pattern", "negative_pattern"} -> 2
      [] type = "concerning_trend" -> 3
      [] type = "care_recommendation" -> 4
      [] type = "nlp_insight" -> 5

InRuleOrder(t) ==
    /\ Len(t) >= 1 /\ t[1] = "info"
    /\ \A i \in 2..Len(t) : t[i] # "info"
    /\ \A i, j \in 1..Len(t) :
         i < j => /\ Rank(t[i]) <= Rank(t[j])
                  /\ (Rank(t[i]) = Rank(t[j]) => Rank(t[i]) = 2)

C4_Idempotent ==
    \A j, k \in Runs : returned[j] = returned[k]

\* C5: with at least 7 records one call of run_analysis appends at most one
\* nlp_insight; it appends one iff some record has mood_score > 7 and a
\* journal sentiment below -0.5; and it names the date of the earliest such
\* record, in whatever order the records were handed over.
Sentiment(r) == IF r.journal = "" THEN 0 ELSE polarity_compound(r.journal)
Qualifying == {i \in 1..Count : user_data[i].mood_score > 7 /\ Sentiment(user_data[i]) < -50}
EarliestQualifyingDate ==
    CHOOSE d \in {user_data[i].date : i \in Qualifying} :
        \A i \in Qualifying : d <= user_data[i].date

C5_SentimentMismatch ==
    (Analysed /\ Count >= 7) =>
        \A k \in Runs :
            LET seg == Segment(k)
                at == Positions(seg, "nlp_insight")
            IN  /\ Cardinality(at) <= 1
                /\ (at # {}) <=> (Qualifying # {})
                /\ \A p \in at :
                     /\ seg[p].text[2] = Strftime(EarliestQualifyingDate).month
                     /\ seg[p].text[3] = Strftime(EarliestQualifyingDate).day

C5_Witness ==
    /\ Analysed /\ Count >= 7
    /\ Cardinality(Qualifying) >= 2
    /\ \E i \in Qualifying : i > 1 /\ user_data[i].date = EarliestQualifyingDate
    /\ user_data[1].date > user_data[Count].date
    /\ Positions(returned[1], "nlp_insight") # {}

\* C6: with at least 7 records a row is flagged is_anomaly iff its score is
\* strictly below mean - 1.75 * std, mean and sample (n-1) standard deviation
\* taken over all the scores: with d = sum - n * score, iff d > 0 and
\* 16 (n-1) d^2 > 49 n (n * sum of squares - sum^2).
StrictlyBelowThreshold(i, S, V) ==
    LET d == S - Count * df.mood_score[i]
    IN  d > 0 /\ 16 * (Count - 1) * d * d > 49 * Count * V

C6_AnomalyThreshold ==
    (Analysed /\ Count >= 7) =>
        /\ "is_anomaly" \in DOMAIN df
        /\ LET S == ScoreSum
               V == ScaledVariance(S)
           IN  \A i \in 1..Count :
                   df.is_anomaly[i] <=> StrictlyBelowThreshold(i, S, V)

C6_Witness ==
    /\ Analysed /\ Count >= 7
    /\ \E i \in 1..Count : df.is_anomaly[i]
    /\ \E i \in 1..Count :
         ~df.is_anomaly[i] /\ Count * df.mood_score[i] < ScoreSum

\* C7: the correlation of a tag is the mean score over the set of records
\* that carry the tag, each record counted once however often its list
\* repeats the tag.
Carriers(tag) == {i \in 1..Count : \E j \in 1..Len(df.tags[i]) : df.tags[i][j] = tag}

C7_MeanOverRecords ==
    (Analysed /\ Count >= 7) =>
        \A k \in 1..Len(analytics.tag_correlations) :
            LET it == analytics.tag_correlations[k]
            IN  it.mean.num * Cardinality(Carriers(it.tag))
                    = SetSum(df.mood_score, Carriers(it.tag)) * it.mean.den

\* C8 as stated: the pattern insights come in the order in which their tags
\* are first met going through the date-ordered records.
FirstSeen(tag) ==
    LET rows == Exploded(df)
    IN  CHOOSE p \in 1..Len(rows) :
            rows[p].tags = tag /\ \A q \in 1..(p - 1) : rows[q].tags # tag

RecentAnomalies ==
    {i \in 1..Count : i > Count - 14 /\ df.is_anomaly[i]}

C9_ConcerningTrend ==
    (Analysed /\ Count >= 7) =>
        \A k \in Runs :
            LET at == Positions(Segment(k), "concerning_trend")
            IN  /\ Cardinality(at) <= 1
                /\ (at # {}) <=> (Cardinality(RecentAnomalies) >= 3)

C9_Witness ==
    /\ Analysed /\ Count > 14
    /\ Cardinality({i \in 1..Count : df.is_anomaly[i]}) >= 3
    /\ Cardinality(RecentAnomalies) < 3
    /\ Positions(returned[1], "concerning_trend") = {}

\* C10: a care_recommendation is appended iff there are more than 14 records
\* and the mean of the last 7 scores is strictly below mean - std: with
\* d = 7 * sum - n * (sum of the last 7), iff d > 0 and
\* (n-1) d^2 > 49 n (n * sum of squares - sum^2).
LastSevenSum == SetSum(df.mood_score, {i \in 1..Count : i > Count - 7})
LowRecentMean ==
    LET S == ScoreSum
        d == 7 * S - Count * LastSevenSum
    IN  d > 0 /\ (Count - 1) * d * d > 49 * Count * ScaledVariance(S)

C10_CareRecommendation ==
    Analysed =>
        LET due == Count > 14 /\ LowRecentMean
        IN  \A k \in Runs :
                (Positions(Segment(k), "care_recommendation") # {}) <=> due

C10_Witness ==
    /\ Analysed /\ Count > 14
    /\ Positions(returned[1], "care_recommendation") # {}
====
